---- MODULE Spec2Model ----
(***************************************************************************)
(* Model of matrix-builder (src/main.rs): three dense matrix layouts       *)
(* (MatrixRowMajor, MatrixColMajor, MatrixBlocky) behind the trait Matrix  *)
(* with default / new / get.                                               *)
(*                                                                         *)
(* A behaviour is the life of one instance: the caller holds an input      *)
(* `slice`, builds one instance of one layout with default() or new(), and *)
(* then calls get(i, j) any number of times.  A Rust panic aborts the      *)
(* caller: pc = "aborted" and nothing runs afterwards.                     *)
(*                                                                         *)
(* Rust indexes from 0, TLA+ sequences from 1: element k of a Vec v is     *)
(* v[k + 1] here.  usize arithmetic keeps a width (UsizeBits): with        *)
(* overflow checks on (debug profile) an overflowing `*` or `+` panics,    *)
(* with them off (release profile) it wraps modulo 2^UsizeBits.            *)
(***************************************************************************)
EXTENDS Integers, Sequences, FiniteSets, TLC

\* ------------------------------------------------------------------ bounds

\* Largest number of rows and of columns of an input.
MaxDim == 4

\* Small coordinates passed to get are 0..MaxCoord.
MaxCoord == 4

\* Width of usize in the model (Rust has 16-, 32- and 64-bit targets).
UsizeBits == 16

USIZE == 2 ^ UsizeBits

UsizeMax == USIZE - 1

\* Coordinates passed to get: the small ones, and two large ones whose
\* products with a stride leave the usize range.
Coords == (0..MaxCoord) \cup {USIZE \div 2, UsizeMax}

\* ------------------------------------------------------------------ inputs

\* The element the caller puts at (0-based) row r, column c: every position
\* of an input holds a different value, as in the tests' 1, 2, 3, ... fills.
Cell(r, c) == 10 * (r + 1) + (c + 1)

\* The input whose row r (1-based) has lens[r] elements.
MkSlice(lens) == [r \in 1..Len(lens) |-> [c \in 1..lens[r] |-> Cell(r - 1, c - 1)]]

\* Row lengths of the rectangular R x C inputs.
RectLens(R, C) == [r \in 1..R |-> C]

\* Inputs: the empty one, every rectangular R x C one, and every one that
\* differs from a rectangular one by one row that is one element shorter
\* or one element longer.
Inputs ==
    {<<>>}
    \cup {MkSlice(RectLens(R, C)) : R \in 1..MaxDim, C \in 0..MaxDim}
    \cup UNION {{MkSlice([RectLens(R, C) EXCEPT ![k] = C + d]) :
                    R \in k..MaxDim, C \in {c \in 0..MaxDim : c + d \in 0..MaxDim}} :
                 k \in 1..MaxDim, d \in {-1, 1}}

\* ------------------------------------------------------------------ helpers

Min(a, b) == IF a <= b THEN a ELSE b

\* Iterator::take(n) and Iterator::skip(n) on a sequence.
Take(s, n) == SubSeq(s, 1, Min(n, Len(s)))

Skip(s, n) == SubSeq(s, Min(n, Len(s)) + 1, Len(s))

\* flat_map: the concatenation of a sequence of sequences.
RECURSIVE FlatMap(_)
FlatMap(ss) == IF Len(ss) = 0 THEN <<>> ELSE Head(ss) \o FlatMap(Tail(ss))

\* A usize expression whose mathematical value is x.  checks = TRUE is a
\* build with overflow checks (panic on overflow), FALSE one that wraps.
Usize(x, checks) ==
    IF x <= UsizeMax THEN [ok |-> TRUE, v |-> x]
    ELSE IF checks THEN [ok |-> FALSE, v |-> 0]
    ELSE [ok |-> TRUE, v |-> x % USIZE]

\* ------------------------------------------------------------------ results

\* Result<T, MatrixError> of get, and the panic that is no value at all.
\* msg holds the values format! puts into the error's String.
Ok(v) == [tag |-> "Ok", val |-> v, msg |-> <<>>]

ForbiddenIndexing(msg) == [tag |-> "ForbiddenIndexing", val |-> 0, msg |-> msg]

OutOfBoundIndexing(msg) == [tag |-> "OutOfBoundIndexing", val |-> 0, msg |-> msg]

Panic == [tag |-> "Panic", val |-> 0, msg |-> <<>>]

\* What a constructor leaves: the instance, or a panic.
Built(m) == [ok |-> TRUE, m |-> m]

\* An instance with an empty buffer and len 0: every layout's default().
EmptyMatrix == [arr |-> <<>>, len |-> 0]

NotBuilt == [ok |-> FALSE, m |-> EmptyMatrix]

\* ------------------------------------------------------------------ row-major

MatrixRowMajorDefault == EmptyMatrix

\* new with the number of rows taken for the stride.
MatrixRowMajorNewLenRows(slice) ==
    IF Len(slice) = 0 THEN NotBuilt
    ELSE Built([arr |-> FlatMap(slice), len |-> Len(slice)])

\* new: arr = the rows one after another, len = slice[0].len().
\* slice[0] panics on an empty slice.
MatrixRowMajorNew(slice) ==
    IF Len(slice) = 0 THEN NotBuilt
    ELSE Built([arr |-> FlatMap(slice), len |-> Len(slice[1])])

\* get: the shape check on j, the buffer check on the offset, the read.
\* self.arr[k] panics when k >= self.arr.len().
MatrixRowMajorGet(self, i, j, checks) ==
    IF j > self.len
    THEN ForbiddenIndexing(<<ToString(self.len), ToString(j)>>)
    ELSE LET off == Usize(i * self.len + j, checks)
         IN  IF ~off.ok THEN Panic
             ELSE IF off.v > Len(self.arr)
             THEN OutOfBoundIndexing(<<ToString(self.len), "true">>)
             ELSE IF off.v >= Len(self.arr) THEN Panic
             ELSE Ok(self.arr[off.v + 1])

\* ------------------------------------------------------------------ column-major

MatrixColMajorDefault == EmptyMatrix

\* new: for each column j < slice[0].len(), element j of every row;
\* len = slice.len().  slice[0] panics on an empty slice and inner[j]
\* panics on a row shorter than row 0.
MatrixColMajorNew(slice) ==
    IF Len(slice) = 0 THEN NotBuilt
    ELSE IF \E r \in 1..Len(slice) : Len(slice[r]) < Len(slice[1]) THEN NotBuilt
    ELSE Built([arr |-> FlatMap([j \in 1..Len(slice[1]) |->
                                    [r \in 1..Len(slice) |-> slice[r][j]]]),
                len |-> Len(slice)])

\* The same get with the offset of the row-major layout.
MatrixColMajorGetRowOffset(self, i, j, checks) ==
    IF i > self.len
    THEN ForbiddenIndexing(<<ToString(i), ToString(self.len)>>)
    ELSE LET off == Usize(i * self.len + j, checks)
         IN  IF ~off.ok THEN Panic
             ELSE IF off.v > Len(self.arr)
             THEN OutOfBoundIndexing(<<ToString(self.len), ToString(off.v)>>)
             ELSE IF off.v >= Len(self.arr) THEN Panic
             ELSE Ok(self.arr[off.v + 1])

\* get: the shape check on i, the buffer check on the offset, the read.
MatrixColMajorGet(self, i, j, checks) ==
    IF i > self.len
    THEN ForbiddenIndexing(<<ToString(i), ToString(self.len)>>)
    ELSE LET off == Usize(j * self.len + i, checks)
         IN  IF ~off.ok THEN Panic
             ELSE IF off.v > Len(self.arr)
             THEN OutOfBoundIndexing(<<ToString(self.len), ToString(off.v)>>)
             ELSE IF off.v >= Len(self.arr) THEN Panic
             ELSE Ok(self.arr[off.v + 1])

\* ------------------------------------------------------------------ blocky

MatrixBlockyDefault == EmptyMatrix

\* The rows `rows`, each cut to the h columns after the first `skip`.
Quadrant(rows, skip, h) == [r \in 1..Len(rows) |-> Take(Skip(rows[r], skip), h)]

\* The four sub-slices new passes to MatrixRowMajor::new, in the order of
\* the vec! literal; h = slice.len() / 2.
QuadrantSlices(slice) ==
    LET h == Len(slice) \div 2
    IN  << Quadrant(Take(slice, h), 0, h),
           Quadrant(Take(slice, h), h, h),
           Quadrant(Take(Skip(slice, h), h), 0, h),
           Quadrant(Take(Skip(slice, h), h), h, h) >>

\* new with the second and third quadrant exchanged.
MatrixBlockyNewSwapped(slice) ==
    LET qs == QuadrantSlices(slice)
        bs == [q \in 1..4 |-> MatrixRowMajorNew(qs[q])]
    IN  IF \E q \in 1..4 : ~bs[q].ok THEN NotBuilt
        ELSE Built([arr |-> <<bs[1].m, bs[3].m, bs[2].m, bs[4].m>>,
                    len |-> Len(slice)])

\* new: four row-major quadrants, len = slice.len().  It panics when a
\* quadrant's MatrixRowMajor::new does (a sub-slice with no rows).
MatrixBlockyNew(slice) ==
    LET qs == QuadrantSlices(slice)
        bs == [q \in 1..4 |-> MatrixRowMajorNew(qs[q])]
    IN  IF \E q \in 1..4 : ~bs[q].ok THEN NotBuilt
        ELSE Built([arr |-> [q \in 1..4 |-> bs[q].m], len |-> Len(slice)])

\* get with the quadrant index transposed.
MatrixBlockyGetTransposed(self, i, j, checks) ==
    LET h == self.len \div 2
    IN  IF h = 0 THEN Panic
        ELSE LET idx == Usize((j \div h) * 2 + (i \div h), checks)
             IN  IF ~idx.ok THEN Panic
                 ELSE IF idx.v >= Len(self.arr) THEN Panic
                 ELSE MatrixRowMajorGet(self.arr[idx.v + 1], i % h, j % h, checks)

\* get: the quadrant (i / h) * 2 + j / h with h = self.len / 2, asked for
\* (i % h, j % h).  Division by h = 0 panics, and so does self.arr[idx]
\* with idx >= self.arr.len().
MatrixBlockyGet(self, i, j, checks) ==
    LET h == self.len \div 2
    IN  IF h = 0 THEN Panic
        ELSE LET idx == Usize((i \div h) * 2 + (j \div h), checks)
             IN  IF ~idx.ok THEN Panic
                 ELSE IF idx.v >= Len(self.arr) THEN Panic
                 ELSE MatrixRowMajorGet(self.arr[idx.v + 1], i % h, j % h, checks)

\* ------------------------------------------------------------------ state

VARIABLES
    slice,   \* the caller's input, &[Vec<T>]
    kind,    \* the layout of the instance: "none", "row", "col", "blocky"
    origin,  \* how it was made: "none", "default", "new"
    mat,     \* the instance: its fields arr and len
    pc,      \* "start", "live" (an instance exists), "aborted" (a panic)
    last     \* the last call: op, its coordinates, what it returned

vars == <<slice, kind, origin, mat, pc, last>>

Call(op, i, j, res) == [op |-> op, i |-> i, j |-> j, res |-> res]

Init ==
    /\ slice \in Inputs
    /\ kind = "none"
    /\ origin = "none"
    /\ mat = EmptyMatrix
    /\ pc = "start"
    /\ last = Call("none", 0, 0, Ok(0))

\* T::default() of layout k.
Default(k, m) ==
    /\ pc = "start"
    /\ kind' = k
    /\ origin' = "default"
    /\ mat' = m
    /\ pc' = "live"
    /\ last' = Call("default", 0, 0, Ok(0))
    /\ UNCHANGED slice

\* T::new(&slice) of layout k, b what the constructor leaves.
New(k, b) ==
    /\ pc = "start"
    /\ kind' = k
    /\ origin' = "new"
    /\ mat' = b.m
    /\ pc' = IF b.ok THEN "live" ELSE "aborted"
    /\ last' = Call("new", 0, 0, IF b.ok THEN Ok(0) ELSE Panic)
    /\ UNCHANGED slice

\* self.get(i, j) returned res (or panicked) and left the instance alone.
Get(i, j, res) ==
    /\ last' = Call("get", i, j, res)
    /\ pc' = IF res.tag = "Panic" THEN "aborted" ELSE "live"
    /\ UNCHANGED <<slice, kind, origin, mat>>

RowMajorDefault == Default("row", MatrixRowMajorDefault)

ColMajorDefault == Default("col", MatrixColMajorDefault)

BlockyDefault == Default("blocky", MatrixBlockyDefault)

RowMajorNew == New("row", MatrixRowMajorNew(slice))

ColMajorNew == New("col", MatrixColMajorNew(slice))

BlockyNew == New("blocky", MatrixBlockyNew(slice))

RowMajorGet ==
    /\ pc = "live"
    /\ kind = "row"
    /\ \E i \in Coords, j \in Coords :
        \E res \in {MatrixRowMajorGet(mat, i, j, checks) : checks \in BOOLEAN} :
            Get(i, j, res)

ColMajorGet ==
    /\ pc = "live"
    /\ kind = "col"
    /\ \E i \in Coords, j \in Coords :
        \E res \in {MatrixColMajorGet(mat, i, j, checks) : checks \in BOOLEAN} :
            Get(i, j, res)

BlockyGet ==
    /\ pc = "live"
    /\ kind = "blocky"
    /\ \E i \in Coords, j \in Coords :
        \E res \in {MatrixBlockyGet(mat, i, j, checks) : checks \in BOOLEAN} :
            Get(i, j, res)

Next ==
    \/ RowMajorDefault
    \/ ColMajorDefault
    \/ BlockyDefault
    \/ RowMajorNew
    \/ ColMajorNew
    \/ BlockyNew
    \/ RowMajorGet
    \/ ColMajorGet
    \/ BlockyGet

Spec == Init /\ [][Next]_vars

\* ------------------------------------------------------------------ claims

\* The shape of the caller's input: R rows, C = the length of row 0.
Rows == Len(slice)

Cols == IF Len(slice) = 0 THEN 0 ELSE Len(slice[1])

\* A rectangular input with at least one row.
Rect == Rows >= 1 /\ \A r \in 1..Rows : Len(slice[r]) = Cols

\* A rectangular input with at least one row and one column.
Rect1 == Rect /\ Cols >= 1

\* An N x N input.
Square == Rect /\ Cols = Rows

\* The instance came from new(&slice) of one of the flat layouts.
FlatNew == origin = "new" /\ kind \in {"row", "col"} /\ pc # "start"

\* The last call was a get; LastInRange: with a coordinate inside R x C.
LastGet == last.op = "get"

LastInRange == LastGet /\ last.i < Rows /\ last.j < Cols

\* C1: round trip on the flat layouts.  On a row-major or column-major
\* instance built by new from a rectangular R x C input, get(i, j) with
\* i < R and j < C returns Ok(input[i][j]); and the row-major and the
\* column-major instance of the same input give that same answer, with
\* overflow checks on or off.
C1_RoundTrip ==
    (Rect /\ FlatNew /\ LastInRange) =>
        /\ last.res.tag = "Ok"
        /\ last.res.val = slice[last.i + 1][last.j + 1]
        /\ \A checks \in BOOLEAN :
            /\ MatrixRowMajorGet(MatrixRowMajorNew(slice).m, last.i, last.j, checks)
                 = Ok(slice[last.i + 1][last.j + 1])
            /\ MatrixColMajorGet(MatrixColMajorNew(slice).m, last.i, last.j, checks)
                 = Ok(slice[last.i + 1][last.j + 1])

\* A column-major instance of a 2 x 3 input answered get(1, 2) with the
\* element of row 1, column 2.
C1_Witness ==
    /\ Rect /\ Rows = 2 /\ Cols = 3
    /\ FlatNew /\ kind = "col"
    /\ LastGet /\ last.i = 1 /\ last.j = 2
    /\ last.res = Ok(Cell(1, 2))

\* C2: block delegation.  On a blocky instance built by new from an N x N
\* input with N even, get(i, j) with i < N and j < N returns
\* Ok(input[i][j]), the value the row-major layout of the same input
\* returns.
C2_BlockDelegation ==
    (Square /\ Rows % 2 = 0 /\ kind = "blocky" /\ origin = "new" /\ LastInRange) =>
        /\ last.res.tag = "Ok"
        /\ last.res.val = slice[last.i + 1][last.j + 1]
        /\ \A checks \in BOOLEAN :
            MatrixRowMajorGet(MatrixRowMajorNew(slice).m, last.i, last.j, checks)
                = last.res

\* A blocky instance of a 4 x 4 input answered get(3, 2), a coordinate of
\* the bottom-left quadrant, with the element of row 3, column 2.
C2_Witness ==
    /\ Square /\ Rows = 4
    /\ kind = "blocky" /\ origin = "new"
    /\ LastGet /\ last.i = 3 /\ last.j = 2
    /\ last.res = Ok(Cell(3, 2))

\* C3: get never panics on the flat layouts.  On a row-major or
\* column-major instance made by default() or by new from a rectangular
\* input with R >= 1 and C >= 1, no get(i, j) panics.
C3_GetNeverPanics ==
    (/\ kind \in {"row", "col"}
     /\ origin = "default" \/ (origin = "new" /\ Rect1)
     /\ LastGet) => last.res.tag # "Panic"

\* C4: only in-range coordinates are answered.  On a flat instance built
\* from a rectangular R x C input, get(i, j) = Ok(v) implies i < R, j < C
\* and v = input[i][j].
C4_OkOnlyInRange ==
    (Rect1 /\ FlatNew /\ LastGet /\ last.res.tag = "Ok") =>
        /\ last.i < Rows
        /\ last.j < Cols
        /\ last.res.val = slice[last.i + 1][last.j + 1]

\* C5: boundary acceptance.  On a row-major instance of an R x C input,
\* get(i, C) returns Ok or Err(OutOfBoundIndexing); on a column-major one
\* get(R, j) does.
C5_BoundaryAcceptance ==
    (/\ Rect1 /\ FlatNew /\ LastGet
     /\ \/ kind = "row" /\ last.j = Cols
        \/ kind = "col" /\ last.i = Rows)
    => last.res.tag \in {"Ok", "OutOfBoundIndexing"}

\* C6: two-stage classification.  Row-major: j > stride gives
\* ForbiddenIndexing, and j <= stride with i * stride + j > buffer length
\* gives OutOfBoundIndexing.  Column-major: the same with i and j exchanged.
C6_TwoStage ==
    LET a == IF kind = "row" THEN last.j ELSE last.i
        b == IF kind = "row" THEN last.i ELSE last.j
    IN  (kind \in {"row", "col"} /\ LastGet) =>
            /\ a > mat.len => last.res.tag = "ForbiddenIndexing"
            /\ (a <= mat.len /\ b * mat.len + a > Len(mat.arr))
                  => last.res.tag = "OutOfBoundIndexing"

\* C7: blocky get never panics.  On a blocky instance built from an N x N
\* input with N even, no get(i, j) panics, whatever i and j.
C7_BlockyGetNeverPanics ==
    (Square /\ Rows % 2 = 0 /\ kind = "blocky" /\ origin = "new" /\ LastGet)
        => last.res.tag # "Panic"

\* C8: instances are immutable.  After new from a rectangular R x C input
\* the buffer of a flat instance has R * C elements and the stride is C
\* (row-major) or R (column-major); and no get, returning Ok, Err or
\* panicking, changes the buffer or the stride.
C8_Immutable ==
    /\ [](Rect /\ FlatNew =>
            /\ Len(mat.arr) = Rows * Cols
            /\ mat.len = IF kind = "row" THEN Cols ELSE Rows)
    /\ [][pc = "live" => mat' = mat]_vars

\* A row-major instance of a 2 x 3 input after a get that returned an Err.
C8_Witness ==
    /\ Rect /\ Rows = 2 /\ Cols = 3
    /\ FlatNew /\ kind = "row"
    /\ LastGet /\ last.res.tag = "OutOfBoundIndexing"
    /\ mat = [arr |-> <<11, 12, 13, 21, 22, 23>>, len |-> 3]

\* A blocky instance built by new from an N x N input, N >= 2.
BlockyOfSquare == Square /\ Rows >= 2 /\ kind = "blocky" /\ origin = "new"

\* The number of places the four quadrants hold the value v.
Held(v) ==
    Cardinality({qk \in UNION {{<<q, k>> : k \in 1..Len(mat.arr[q].arr)} :
                                 q \in 1..Len(mat.arr)} :
                    mat.arr[qk[1]].arr[qk[2]] = v})

\* C9 as claimed: the quadrants are the row-major instances of the first
\* N/2 rows/columns and of ALL the remaining rows/columns from index N/2,
\* so that every input element is held exactly once.
C9_SplitRemaining ==
    BlockyOfSquare =>
        LET h == Rows \div 2
            top == Take(slice, h)
            bottom == Skip(slice, h)
            left(rows) == [r \in 1..Len(rows) |-> Take(rows[r], h)]
            right(rows) == [r \in 1..Len(rows) |-> Skip(rows[r], h)]
        IN  /\ mat.arr = << MatrixRowMajorNew(left(top)).m,
                            MatrixRowMajorNew(right(top)).m,
                            MatrixRowMajorNew(left(bottom)).m,
                            MatrixRowMajorNew(right(bottom)).m >>
            /\ \A r \in 1..Rows, c \in 1..Rows : Held(slice[r][c]) = 1

\* C9 as amended: four h x h row-major quadrants with h = N / 2, in the
\* order top-left, top-right, bottom-left, bottom-right; the bottom/right
\* half is the h rows/columns from index h.  Every element at r, c < 2h is
\* held exactly once, at offset (r % h) * h + c % h of quadrant
\* (r / h) * 2 + c / h; for odd N the last row and the last column are
\* held by no quadrant.
C9_SplitHalves ==
    BlockyOfSquare =>
        LET h == Rows \div 2
        IN  /\ Len(mat.arr) = 4
            /\ mat.len = Rows
            /\ \A q \in 1..4 : mat.arr[q].len = h /\ Len(mat.arr[q].arr) = h * h
            /\ \A r \in 0..(Rows - 1), c \in 0..(Rows - 1) :
                IF r < 2 * h /\ c < 2 * h
                THEN /\ Held(slice[r + 1][c + 1]) = 1
                     /\ mat.arr[(r \div h) * 2 + (c \div h) + 1].arr[(r % h) * h + (c % h) + 1]
                            = slice[r + 1][c + 1]
                ELSE Held(slice[r + 1][c + 1]) = 0

\* A blocky instance of a 3 x 3 input: four 1 x 1 quadrants.
C9_Witness ==
    /\ BlockyOfSquare /\ Rows = 3 /\ pc = "live"
    /\ mat.arr = << [arr |-> <<11>>, len |-> 1], [arr |-> <<12>>, len |-> 1],
                    [arr |-> <<21>>, len |-> 1], [arr |-> <<22>>, len |-> 1] >>

\* C10: construction accepts rows of differing lengths.  For a non-empty
\* input that is not rectangular, new of both flat layouts returns an
\* instance: the row-major stride is the length of row 0 and the
\* column-major buffer holds length-of-row-0 columns of R elements.
C10_RaggedAccepted ==
    (Rows >= 1 /\ ~Rect /\ FlatNew /\ last.op = "new") =>
        /\ pc = "live"
        /\ kind = "row" => mat.len = Cols
        /\ kind = "col" => Len(mat.arr) = Rows * Cols /\ mat.len = Rows

====
